---- MODULE Spec2Model ----
(***************************************************************************)
(* Piece-identity reconciliation of gemini-3-chess:                        *)
(* usePieceTracking (src/components/ThreeChess.tsx) and the App state      *)
(* that feeds it (src/unnamed/part_000).                                   *)
(*                                                                         *)
(* A square is <<file, rank>> (file 1 = 'a', rank 1 = '1'), a StableId is  *)
(* <<color, type, token>> for the string `${color}-${type}-${token}`, and  *)
(* a move hint is <<from, to>> or <<>> for null.                           *)
(***************************************************************************)
EXTENDS Integers, Sequences, FiniteSets, TLC

VARIABLES
    boardState,     \* the snapshot handed to the hook: a set of pieces
    lastMove,       \* the hint handed to the hook: <<from, to>> or <<>>
    prevPieces,     \* prevPiecesRef.current, entries in key insertion order
    trackedPieces,  \* the array returned by the last run of the hook
    oldPieces,      \* history: prevPiecesRef.current as the last run read it
    oldTracked,     \* history: the array returned by the run before the last
    origin,         \* history: for the last move, new square -> old square of the same physical piece
    issued,         \* history: every id generateId returned in earlier runs
    minted,         \* history: the ids generateId returned in the last run, in call order
    retired,        \* history: the ids of the entries that were captured in some run
    calls,          \* number of runs of the hook so far
    turn,           \* game.turn(): the side to move
    start,          \* what new Chess() holds: the board and the side to move of a new game
    accepted,       \* history: from/to of the move game.move returned in the last handler, <<>> if none
    selectedSquare, \* App: the selected square or <<>>
    validMoves,     \* App: the squares of moves.map(m => m.to), as a set
    gameStatus,     \* App: GameStatus
    ended,          \* what the rule engine reports of the position of `game`
    isThinking,     \* App: a request for commentary is being awaited
    hint,           \* App: the commentary on screen or <<>>
    pending,        \* the calls of getChessHint that have not returned yet
    asked,          \* history: number of calls of getChessHint so far
    games,          \* history: number of games resetGame has started
    handler         \* history: the handler that ran last, and what kind of square a click hit

\* The state of App beside the board, the hint of the last move and the side
\* to move.  (boardView and showHintModal are display state no handler reads.)
app == <<selectedSquare, validMoves, gameStatus, ended, isThinking, hint,
         pending, asked, games, handler>>

vars == <<boardState, lastMove, prevPieces, trackedPieces, oldPieces,
          oldTracked, origin, issued, minted, retired, calls, turn, start, accepted,
          selectedSquare, validMoves, gameStatus, ended, isThinking, hint,
          pending, asked, games, handler>>

----------------------------------------------------------------------------
(* Bounds *)

MaxFile == 2        \* Spec: the snapshots lie on files 1 .. MaxFile
MaxRank == 2        \* Spec: and on ranks 1 .. MaxRank
MaxPieces == 2      \* Spec: a snapshot holds at most MaxPieces pieces
MaxTok == 2         \* Math.random has MaxTok outcomes
MaxRenders == 1     \* Spec: runs of the hook after the first
MaxReruns == 2      \* SpecOrder: runs of the hook after the first
LineFiles == 4      \* SpecLine: the snapshots lie on the files 1 .. LineFiles of rank 1
MaxMoves == 3       \* SpecGame: accepted moves
WindowFiles == 4    \* SpecGame: the files h, g, ... that hold pieces
WindowRanks == 4    \* SpecGame: the ranks 8, 7, ... that hold pieces (and rank 1)
MaxPlies == 2       \* SpecApp: runs of the hook after the first
MaxAsks == 2        \* SpecApp: calls of getChessHint
MaxResets == 1      \* SpecApp: games started by resetGame

(* Program constants *)

BOARD_SIZE == 8

----------------------------------------------------------------------------
(* Data *)

NoMove == <<>>

\* useState<Square | null>(null) and useState<string | null>(null).
NoSquare == <<>>
NoHint == <<>>

\* enum GameStatus.
PLAYING == "playing"
CHECKMATE == "checkmate"
DRAW == "draw"
STALEMATE == "stalemate"

Colors == {"w", "b"}
Types == {"p", "n", "b", "r", "q", "k"}

Tokens == 0 .. (MaxTok - 1)

Min(S) == CHOOSE x \in S : \A y \in S : x <= y

SeqToSet(s) == {s[i] : i \in 1 .. Len(s)}

\* Faulty variant: the groups keyed by color alone.
Key_ColorOnly(p) == <<p.color, "*">>

Key(p) == <<p.color, p.type>>

\* getDistance returns sqrt(d2); the model keeps d2 itself.  Math.sqrt is
\* strictly increasing and exact enough on 0..98 that a.dist - b.dist has the
\* sign of the difference of the squares, which is all the sort looks at.
\* Faulty variant: the files left out of the distance.
getDistance_RanksOnly(sq1, sq2) ==
    (sq1[2] - sq2[2]) * (sq1[2] - sq2[2])

getDistance(sq1, sq2) ==
    (sq1[1] - sq2[1]) * (sq1[1] - sq2[1]) + (sq1[2] - sq2[2]) * (sq1[2] - sq2[2])

\* `${color}-${type}-${Math.random()...}`: tok is the outcome of Math.random.
generateId(type, color, tok) == <<color, type, tok>>

----------------------------------------------------------------------------
(* usePieceTracking, step 1: flatten the board, rank 8 first, file a first *)

RowMajor(squares) ==
    LET n == Cardinality(squares)
        Before(a, b) == a[2] > b[2] \/ (a[2] = b[2] /\ a[1] < b[1])
        Pos(s) == Cardinality({t \in squares : Before(t, s)}) + 1
    IN  [i \in 1 .. n |-> CHOOSE s \in squares : Pos(s) = i]

\* Faulty variant: `if(p)` left out, a cell without a piece pushed as one.
Flatten_EveryCell(board) ==
    LET cells == ((1 .. MaxFile) \X (1 .. MaxRank)) \ {p.square : p \in board}
        all == board \cup {[square |-> sq, type |-> "p", color |-> "w"] : sq \in cells}
        order == RowMajor({p.square : p \in all})
    IN  [i \in 1 .. Len(order) |-> CHOOSE p \in all : p.square = order[i]]

Flatten(board) ==
    LET order == RowMajor({p.square : p \in board})
    IN  [i \in 1 .. Len(order) |-> CHOOSE p \in board : p.square = order[i]]

(* steps 2 and 3: group by color + type, keys in order of first appearance *)

Group(list, key) ==
    LET InKey(p) == Key(p) = key
    IN  SelectSeq(list, InKey)

RECURSIVE KeysOf(_, _, _)
KeysOf(list, i, acc) ==
    IF i > Len(list) THEN acc
    ELSE KeysOf(list, i + 1,
                IF Key(list[i]) \in SeqToSet(acc) THEN acc
                ELSE Append(acc, Key(list[i])))

DistinctKeys(newPieces, prev) == KeysOf(prev, 1, KeysOf(newPieces, 1, <<>>))

----------------------------------------------------------------------------
(* The passes of one partition.  Indices are 1-based; 0 stands for -1.     *)

Entry(n, id, via) ==
    [id |-> id, square |-> n.square, type |-> n.type, color |-> n.color, via |-> via]

FindIndex(list, used, sq) ==
    LET S == {i \in 1 .. Len(list) : i \notin used /\ list[i].square = sq}
    IN  IF S = {} THEN 0 ELSE Min(S)

\* Faulty variant: pass A left out.
ExactMatch_Skipped(oldList, newList, oIdx, st) == st

RECURSIVE ExactMatch(_, _, _, _)
ExactMatch(oldList, newList, oIdx, st) ==
    IF oIdx > Len(oldList) THEN st
    ELSE LET nIdx == FindIndex(newList, st.usedNew, oldList[oIdx].square)
         IN  IF nIdx # 0
             THEN ExactMatch(oldList, newList, oIdx + 1,
                      [st EXCEPT !.usedNew = @ \cup {nIdx},
                                 !.usedOld = @ \cup {oIdx},
                                 !.result = Append(@, Entry(newList[nIdx], oldList[oIdx].id, "A"))])
             ELSE ExactMatch(oldList, newList, oIdx + 1, st)

\* Faulty variant: pass B left out.
LastMoveMatch_Skipped(oldList, newList, move, st) == st

\* Faulty variant: pass B looks at every entry, matched or not.
LastMoveMatch_IgnoresUsed(oldList, newList, move, st) ==
    IF move = NoMove THEN st
    ELSE LET oIdx == FindIndex(oldList, {}, move[1])
             nIdx == FindIndex(newList, {}, move[2])
         IN  IF oIdx # 0 /\ nIdx # 0
             THEN [st EXCEPT !.usedNew = @ \cup {nIdx},
                             !.usedOld = @ \cup {oIdx},
                             !.result = Append(@, Entry(newList[nIdx], oldList[oIdx].id, "B"))]
             ELSE st

\* Faulty variant: pass B marks its pair as used and pushes no entry.
LastMoveMatch_NoPush(oldList, newList, move, st) ==
    IF move = NoMove THEN st
    ELSE LET oIdx == FindIndex(oldList, st.usedOld, move[1])
             nIdx == FindIndex(newList, st.usedNew, move[2])
         IN  IF oIdx # 0 /\ nIdx # 0
             THEN [st EXCEPT !.usedNew = @ \cup {nIdx}, !.usedOld = @ \cup {oIdx}]
             ELSE st

LastMoveMatch(oldList, newList, move, st) ==
    IF move = NoMove THEN st
    ELSE LET from == move[1]
             to == move[2]
             oIdx == FindIndex(oldList, st.usedOld, from)
             nIdx == FindIndex(newList, st.usedNew, to)
         IN  IF oIdx # 0 /\ nIdx # 0
             THEN [st EXCEPT !.usedNew = @ \cup {nIdx},
                             !.usedOld = @ \cup {oIdx},
                             !.result = Append(@, Entry(newList[nIdx], oldList[oIdx].id, "B"))]
             ELSE st

Remaining(list, used) ==
    LET idxs == {i \in 1 .. Len(list) : i \notin used}
        n == Cardinality(idxs)
        Nth(k) == CHOOSE i \in idxs : Cardinality({j \in idxs : j < i}) = k - 1
    IN  [k \in 1 .. n |-> list[Nth(k)]]

\* Faulty variant: the previous entries enumerated from the last to the first.
Pairs_OldReversed(remainingOld, remainingNew) ==
    LET no == Len(remainingOld)
        nn == Len(remainingNew)
    IN  IF no = 0 \/ nn = 0 THEN <<>>
        ELSE [k \in 1 .. (no * nn) |->
                 LET rO == remainingOld[no - ((k - 1) \div nn)]
                     rN == remainingNew[((k - 1) % nn) + 1]
                 IN  [o |-> rO, n |-> rN, dist |-> getDistance(rO.square, rN.square)]]

Pairs(remainingOld, remainingNew) ==
    LET no == Len(remainingOld)
        nn == Len(remainingNew)
    IN  IF no = 0 \/ nn = 0 THEN <<>>
        ELSE [k \in 1 .. (no * nn) |->
                 LET rO == remainingOld[((k - 1) \div nn) + 1]
                     rN == remainingNew[((k - 1) % nn) + 1]
                 IN  [o |-> rO, n |-> rN, dist |-> getDistance(rO.square, rN.square)]]

\* Faulty variant: the pairs left in the order of their enumeration.
SortByDist_Unsorted(pairs) == pairs

\* Array.prototype.sort is stable: equal distances keep enumeration order.
RECURSIVE SortByDist(_)
SortByDist(pairs) ==
    IF Len(pairs) = 0 THEN <<>>
    ELSE LET m == Min({pairs[i].dist : i \in 1 .. Len(pairs)})
             IsMin(p) == p.dist = m
             NotMin(p) == p.dist # m
         IN  SelectSeq(pairs, IsMin) \o SortByDist(SelectSeq(pairs, NotMin))

\* Faulty variant: the loop over the pairs left after its first match.
Greedy_FirstOnly(pairs, i, pairUsedOld, pairUsedNew, result) ==
    IF Len(pairs) = 0 THEN result
    ELSE Append(result, Entry(pairs[1].n, pairs[1].o.id, "C"))

RECURSIVE Greedy(_, _, _, _, _)
Greedy(pairs, i, pairUsedOld, pairUsedNew, result) ==
    IF i > Len(pairs) THEN result
    ELSE LET p == pairs[i]
         IN  IF p.o.id \notin pairUsedOld /\ p.n.square \notin pairUsedNew
             THEN Greedy(pairs, i + 1, pairUsedOld \cup {p.o.id},
                         pairUsedNew \cup {p.n.square},
                         Append(result, Entry(p.n, p.o.id, "C")))
             ELSE Greedy(pairs, i + 1, pairUsedOld, pairUsedNew, result)

\* Faulty variant: pass C left out.
DistanceMatch_Skipped(oldList, newList, st) == st

DistanceMatch(oldList, newList, st) ==
    LET remainingOld == Remaining(oldList, st.usedOld)
        remainingNew == Remaining(newList, st.usedNew)
        pairs == SortByDist(Pairs(remainingOld, remainingNew))
    IN  [st EXCEPT !.result = Greedy(pairs, 1, {}, {}, @)]

\* Faulty variant: the check of pass D without the square.
AlreadyInResult_NoSquare(result, n) ==
    \E i \in 1 .. Len(result) :
        /\ result[i].type = n.type
        /\ result[i].color = n.color

AlreadyInResult(result, n) ==
    \E i \in 1 .. Len(result) :
        /\ result[i].square = n.square
        /\ result[i].type = n.type
        /\ result[i].color = n.color

\* rnd[k] is the outcome of Math.random in the k-th call of generateId.
RECURSIVE NewPieces(_, _, _, _)
NewPieces(newList, i, rnd, st) ==
    IF i > Len(newList) THEN st
    ELSE LET n == newList[i]
         IN  IF ~AlreadyInResult(st.result, n)
             THEN NewPieces(newList, i + 1, rnd,
                      [st EXCEPT !.gen = @ + 1,
                                 !.result = Append(@, Entry(n, generateId(n.type, n.color, rnd[st.gen + 1]), "D"))])
             ELSE NewPieces(newList, i + 1, rnd, st)

\* Faulty variant: the hint pass run before the stationary pass.
MatchKey_HintFirst(key, prev, newPieces, move, rnd, acc) ==
    LET oldList == Group(prev, key)
        newList == Group(newPieces, key)
        st0 == [usedOld |-> {}, usedNew |-> {}, result |-> acc.result, gen |-> acc.gen]
        stB == LastMoveMatch(oldList, newList, move, st0)
        stA == ExactMatch(oldList, newList, 1, stB)
        stC == DistanceMatch(oldList, newList, stA)
        stD == NewPieces(newList, 1, rnd, stC)
    IN  [result |-> stD.result, gen |-> stD.gen]

MatchKey(key, prev, newPieces, move, rnd, acc) ==
    LET oldList == Group(prev, key)
        newList == Group(newPieces, key)
        st0 == [usedOld |-> {}, usedNew |-> {}, result |-> acc.result, gen |-> acc.gen]
        stA == ExactMatch(oldList, newList, 1, st0)
        stB == LastMoveMatch(oldList, newList, move, stA)
        stC == DistanceMatch(oldList, newList, stB)
        stD == NewPieces(newList, 1, rnd, stC)
    IN  [result |-> stD.result, gen |-> stD.gen]

RECURSIVE ForEachKey(_, _, _, _, _, _, _)
ForEachKey(keys, i, prev, newPieces, move, rnd, acc) ==
    IF i > Len(keys) THEN acc
    ELSE ForEachKey(keys, i + 1, prev, newPieces, move, rnd,
                    MatchKey(keys[i], prev, newPieces, move, rnd, acc))

\* The body of the useMemo callback up to `return result`.
Reconcile(prev, board, move, rnd) ==
    LET newPieces == Flatten(board)
        keys == DistinctKeys(newPieces, prev)
    IN  ForEachKey(keys, 1, prev, newPieces, move, rnd, [result |-> <<>>, gen |-> 0]).result

\* The run with the k-th outcome of Math.random left open (token k), and the
\* outcomes put in afterwards: no step of the run reads the token of an id it
\* generated, so Redraw(Reconcile(.., Draws(..)), rnd) = Reconcile(.., rnd).
\* A run calls generateId at most once per cell of the board.
Draws(board) == [k \in 1 .. (BOARD_SIZE * BOARD_SIZE) |-> k]

IsNew(r) == r.via = "D"

NumFresh(shape) == Len(SelectSeq(shape, IsNew))

Redraw(shape, rnd) ==
    [i \in 1 .. Len(shape) |->
        IF IsNew(shape[i])
        THEN [shape[i] EXCEPT !.id = generateId(shape[i].type, shape[i].color, rnd[shape[i].id[3]])]
        ELSE shape[i]]

\* nextMap: result.forEach(r => nextMap[r.id] = r).  A repeated key keeps the
\* place of its first insertion and the value of its last.
Stored(r) == [id |-> r.id, square |-> r.square, type |-> r.type, color |-> r.color]

RECURSIVE NextMap(_, _, _)
NextMap(result, i, map) ==
    IF i > Len(result) THEN map
    ELSE LET r == result[i]
             at == {k \in 1 .. Len(map) : map[k].id = r.id}
         IN  NextMap(result, i + 1,
                     IF at = {} THEN Append(map, Stored(r))
                     ELSE [map EXCEPT ![Min(at)] = Stored(r)])

----------------------------------------------------------------------------
(* One run of the hook: the useMemo callback on (board, move), with the    *)
(* write to prevPiecesRef.current.                                         *)

\* History only: what `retired` records.
SquaresOf(pieces, key) == {p.square : p \in {q \in pieces : Key(q) = key}}

\* The ids of the entries of prev that are gone from their square while no
\* piece of their kind and side stands on a square where prev had none.
Captured(prev, board) ==
    {prev[i].id : i \in {j \in 1 .. Len(prev) :
        /\ prev[j].square \notin SquaresOf(board, Key(prev[j]))
        /\ SquaresOf(board, Key(prev[j])) \subseteq SquaresOf(SeqToSet(prev), Key(prev[j]))}}

Run(board, move, org) ==
    LET shape == Reconcile(prevPieces, board, move, Draws(board))
    IN  \E rnd \in [1 .. NumFresh(shape) -> Tokens] :
            LET result == Redraw(shape, rnd)
                fresh == SelectSeq(result, IsNew)
            IN  /\ boardState' = board
                /\ lastMove' = move
                /\ trackedPieces' = result
                /\ prevPieces' = NextMap(result, 1, <<>>)
                /\ oldPieces' = prevPieces
                /\ oldTracked' = trackedPieces
                /\ origin' = org
                /\ issued' = issued \cup SeqToSet(minted)
                /\ minted' = [k \in 1 .. Len(fresh) |-> fresh[k].id]
                /\ retired' = retired \cup Captured(prevPieces, board)
                /\ calls' = calls + 1

\* App before the first render: lastMove is null and the ref holds {}.
InitOn(boards) ==
    /\ boardState \in boards
    /\ lastMove = NoMove
    /\ prevPieces = <<>>
    /\ trackedPieces = <<>>
    /\ oldPieces = <<>>
    /\ oldTracked = <<>>
    /\ origin = {}
    /\ issued = {}
    /\ minted = <<>>
    /\ retired = {}
    /\ calls = 0
    /\ accepted = NoMove
    /\ selectedSquare = NoSquare
    /\ validMoves = {}
    /\ gameStatus = PLAYING
    /\ ended = "no"
    /\ isThinking = FALSE
    /\ hint = NoHint
    /\ pending = {}
    /\ asked = 0
    /\ games = 0
    /\ handler = "none"

\* The first render: the hook runs on the initial props.
Mount ==
    /\ calls = 0
    /\ Run(boardState, lastMove, {})
    /\ UNCHANGED <<turn, start, accepted>>
    /\ UNCHANGED app

----------------------------------------------------------------------------
(* Spec: the hook as a function, called with any snapshot and any hint     *)

Squares == (1 .. MaxFile) \X (1 .. MaxRank)

PieceKinds == {<<"w", "r">>, <<"w", "q">>}

Piece(sq, k) == [square |-> sq, type |-> k[2], color |-> k[1]]

Occupied(board, sq) == \E p \in board : p.square = sq
At(board, sq) == CHOOSE p \in board : p.square = sq

Boards ==
    UNION {{{Piece(sq, f[sq]) : sq \in occ} : f \in [occ -> PieceKinds]} :
           occ \in {o \in SUBSET Squares : Cardinality(o) <= MaxPieces}}

Hints == {NoMove} \cup {m \in Squares \X Squares : m[1] # m[2]}

\* new Chess(): the board of the first render, white to move.
NewGame(c) == start = [board |-> boardState, turn |-> c] /\ turn = c

Init == InitOn(Boards) /\ NewGame("w")

Render ==
    /\ calls > 0
    /\ calls < 1 + MaxRenders
    /\ \E board \in Boards, move \in Hints : Run(board, move, {})
    /\ UNCHANGED <<turn, start, accepted>>
    /\ UNCHANGED app

Next == Mount \/ Render

Spec == Init /\ [][Next]_vars

----------------------------------------------------------------------------
(* SpecOrder: the hook called again and again on snapshots of one kind and *)
(* side, so that the previous table of a run has been stored by runs that  *)
(* matched its entries in different passes.                                *)

RookBoards == {b \in Boards : \A p \in b : Key(p) = <<"w", "r">>}

\* The hints lead from a square that held a piece to a square that holds one
\* (pass B does nothing on any other).

OrderInit == InitOn(RookBoards) /\ NewGame("w")

Rerender ==
    /\ calls > 0
    /\ calls < 1 + MaxReruns
    /\ \E board \in RookBoards, move \in Hints :
          /\ move # NoMove => Occupied(boardState, move[1]) /\ Occupied(board, move[2])
          /\ Run(board, move, {})
    /\ UNCHANGED <<turn, start, accepted>>
    /\ UNCHANGED app

OrderNext == Mount \/ Rerender

SpecOrder == OrderInit /\ [][OrderNext]_vars

----------------------------------------------------------------------------
(* SpecLine: the hook called on snapshots of one kind and side along one   *)
(* rank, long enough for the distance pass to skip a pair between two      *)
(* matches.                                                                *)

LineSquares == (1 .. LineFiles) \X {1}

LineBoards ==
    {{Piece(sq, <<"w", "r">>) : sq \in occ} :
        occ \in {o \in SUBSET LineSquares : Cardinality(o) <= MaxPieces}}

LineHints == {NoMove} \cup {m \in LineSquares \X LineSquares : m[1] # m[2]}

LineInit == InitOn(LineBoards) /\ NewGame("w")

Slide ==
    /\ calls > 0
    /\ calls < 1 + MaxRenders
    /\ \E board \in LineBoards, move \in LineHints : Run(board, move, {})
    /\ UNCHANGED <<turn, start, accepted>>
    /\ UNCHANGED app

LineNext == Mount \/ Slide

SpecLine == LineInit /\ [][LineNext]_vars

----------------------------------------------------------------------------
(* SpecGame: App.  Every accepted move of onSquareClick replaces the board *)
(* by game.board() and lastMove by the move's from/to in one render, and   *)
(* the hook runs on the pair.  chess.js is not part of the repository: the *)
(* moves below are the shapes of board change a chess move has (a piece    *)
(* moves along its lines over empty squares, a capture removes the piece   *)
(* on the target, castling also moves the rook, en passant removes the     *)
(* pawn beside, a pawn on the last rank becomes a queen), on the files     *)
(* e..h and the ranks 1 and 5..8 of the board.                             *)

Other(c) == IF c = "w" THEN "b" ELSE "w"
Dir(c) == IF c = "w" THEN 1 ELSE -1
LastRank(c) == IF c = "w" THEN BOARD_SIZE ELSE 1

GameFiles == (BOARD_SIZE - WindowFiles + 1) .. BOARD_SIZE
GameRanks == {1} \cup ((BOARD_SIZE - WindowRanks + 1) .. BOARD_SIZE)
GameSquares == GameFiles \X GameRanks

Abs(x) == IF x < 0 THEN -x ELSE x

Between(a, b) ==
    {s \in GameSquares :
        /\ s # a /\ s # b
        /\ (s[1] - a[1]) * (b[2] - a[2]) = (s[2] - a[2]) * (b[1] - a[1])
        /\ (s[1] - a[1]) * (s[1] - b[1]) <= 0
        /\ (s[2] - a[2]) * (s[2] - b[2]) <= 0}

\* The squares a piece other than a pawn attacks from its square.
Reaches(board, p, to) ==
    LET df == Abs(to[1] - p.square[1])
        dr == Abs(to[2] - p.square[2])
        clear == \A s \in Between(p.square, to) : ~Occupied(board, s)
        line == (df = 0) # (dr = 0)
        diag == df = dr /\ df # 0
    IN  CASE p.type = "k" -> df <= 1 /\ dr <= 1 /\ df + dr > 0
          [] p.type = "n" -> {df, dr} = {1, 2}
          [] p.type = "r" -> line /\ clear
          [] p.type = "b" -> diag /\ clear
          [] p.type = "q" -> (line \/ diag) /\ clear
          [] OTHER -> FALSE

PawnPush(board, p, to) ==
    /\ p.type = "p"
    /\ to = <<p.square[1], p.square[2] + Dir(p.color)>>
    /\ ~Occupied(board, to)

PawnTakes(p, to) ==
    /\ p.type = "p"
    /\ Abs(to[1] - p.square[1]) = 1
    /\ to[2] = p.square[2] + Dir(p.color)

MovedTo(p, to) == [p EXCEPT !.square = to]

\* The physical pieces of `board` that stay where they are.
Stay(board) == {<<p.square, p.square>> : p \in board}

\* The board is on screen and the run of the model is not over.
Playing == calls > 0 /\ calls < 1 + MaxMoves

\* onSquareClick, lines 33-47: setFen, setLastMove, then the render.
Accept(board, from, to, org) ==
    /\ Run(board, <<from, to>>, org)
    /\ turn' = Other(turn)
    /\ accepted' = <<from, to>>
    /\ UNCHANGED start
    /\ UNCHANGED app

SimpleMove ==
    /\ Playing
    /\ \E p \in boardState, to \in GameSquares :
        /\ p.color = turn
        /\ ~Occupied(boardState, to)
        /\ \/ Reaches(boardState, p, to)
           \/ PawnPush(boardState, p, to) /\ to[2] # LastRank(p.color)
        /\ Accept((boardState \ {p}) \cup {MovedTo(p, to)}, p.square, to,
                  Stay(boardState \ {p}) \cup {<<to, p.square>>})

Capture ==
    /\ Playing
    /\ \E p \in boardState, x \in boardState :
        /\ p.color = turn
        /\ x.color # p.color
        /\ \/ Reaches(boardState, p, x.square)
           \/ PawnTakes(p, x.square) /\ x.square[2] # LastRank(p.color)
        /\ Accept((boardState \ {p, x}) \cup {MovedTo(p, x.square)}, p.square, x.square,
                  Stay(boardState \ {p, x}) \cup {<<x.square, p.square>>})

\* King side: the king goes from e to g, the rook from h to f; the move
\* chess.js reports is the king's.
Castling ==
    /\ Playing
    /\ \E k \in boardState, r \in boardState :
        LET rank == k.square[2]
            kTo == <<7, rank>>
            rTo == <<6, rank>>
        IN  /\ k.color = turn /\ k.type = "k" /\ k.square = <<5, rank>>
            /\ r.color = turn /\ r.type = "r" /\ r.square = <<8, rank>>
            /\ rank = (IF turn = "w" THEN 1 ELSE BOARD_SIZE)
            /\ ~Occupied(boardState, kTo) /\ ~Occupied(boardState, rTo)
            /\ Accept((boardState \ {k, r}) \cup {MovedTo(k, kTo), MovedTo(r, rTo)},
                      k.square, kTo,
                      Stay(boardState \ {k, r}) \cup {<<kTo, k.square>>, <<rTo, r.square>>})

EnPassant ==
    /\ Playing
    /\ \E p \in boardState, x \in boardState :
        LET to == <<x.square[1], p.square[2] + Dir(p.color)>>
        IN  /\ p.color = turn /\ p.type = "p"
            /\ x.color # p.color /\ x.type = "p"
            /\ x.square[2] = p.square[2]
            /\ Abs(x.square[1] - p.square[1]) = 1
            /\ p.square[2] = (IF p.color = "w" THEN 5 ELSE 4)
            /\ ~Occupied(boardState, to)
            /\ Accept((boardState \ {p, x}) \cup {MovedTo(p, to)}, p.square, to,
                      Stay(boardState \ {p, x}) \cup {<<to, p.square>>})

\* promotion: 'q' (line 38): the pawn is replaced by a queen of its side.
Promotion ==
    /\ Playing
    /\ \E p \in boardState, to \in GameSquares :
        LET taken == {x \in boardState : x.square = to}
        IN  /\ p.color = turn /\ p.type = "p"
            /\ to[2] = LastRank(p.color)
            /\ \/ PawnPush(boardState, p, to)
               \/ PawnTakes(p, to) /\ \E x \in taken : x.color # p.color
            /\ Accept((boardState \ ({p} \cup taken)) \cup {[square |-> to, type |-> "q", color |-> p.color]},
                      p.square, to,
                      Stay(boardState \ ({p} \cup taken)))

\* Faulty variant: resetGame without setLastMove(null).
ResetHint_Kept(move) == move

\* setLastMove(null), line 79.
ResetHint(move) == NoMove

\* resetGame: a new game, its fen, no last move, in one render.  After a
\* move the fen differs from the fen of a new game and lastMove is not null,
\* so the hook runs; before any move both keep their values and it does not.
ResetGame ==
    /\ Playing
    /\ lastMove # NoMove
    /\ Run(start.board, ResetHint(lastMove), {})
    /\ turn' = start.turn
    /\ accepted' = NoMove
    /\ UNCHANGED start
    /\ UNCHANGED app

W(t, f, r) == [square |-> <<f, r>>, type |-> t, color |-> "w"]
B(t, f, r) == [square |-> <<f, r>>, type |-> t, color |-> "b"]

\* Positions of a game in progress on which the hook runs first (the ids of
\* a first run are all generated, as are the ids the start position gets).
StartBoards ==
    { {W("k", 5, 1), W("r", 8, 1)},
      {W("k", 5, 1), W("r", 8, 1), B("r", 7, 8)},
      {W("p", 5, 7), W("q", 7, 5), B("r", 7, 8)},
      {W("p", 5, 5), B("p", 6, 5), B("n", 7, 8)} }

GameInit == InitOn(StartBoards) /\ \E c \in Colors : NewGame(c)

GameNext ==
    \/ Mount
    \/ SimpleMove
    \/ Capture
    \/ Castling
    \/ EnPassant
    \/ Promotion
    \/ ResetGame

SpecGame == GameInit /\ [][GameNext]_vars

----------------------------------------------------------------------------
(* SpecApp: App with its handlers.  A click selects a piece of the side to *)
(* move or plays the selected piece to one of its valid squares; resetGame *)
(* starts a new game; the button and the H key ask for commentary, and the *)
(* answer arrives later.  The state updates of one handler and the render  *)
(* they cause are one step.  The moves are those of SpecGame, as values.   *)

hook == <<boardState, lastMove, prevPieces, trackedPieces, oldPieces,
          oldTracked, origin, issued, minted, retired, calls>>

\* What the rule engine reports of a position: chess.js counts a stalemate
\* among the draws, and the game over on checkmate, stalemate or draw.
Verdicts == {"no", "checkmate", "stalemate", "draw"}

isCheckmate(e) == e = "checkmate"
isStalemate(e) == e = "stalemate"
isDraw(e) == e \in {"stalemate", "draw"}

isGameOver(e) == isCheckmate(e) \/ isStalemate(e) \/ isDraw(e)

checkGameStatus(e) ==
    IF isCheckmate(e) THEN CHECKMATE
    ELSE IF isDraw(e) THEN DRAW
    ELSE IF isStalemate(e) THEN STALEMATE
    ELSE PLAYING

\* A move of the rule engine: its from and to, the board after it and where
\* each physical piece of that board stood before.
Move(from, to, board, org) == [from |-> from, to |-> to, board |-> board, org |-> org]

Own(board, c) == {p \in board : p.color = c}

SimpleMoves(board, c) ==
    UNION {{Move(p.square, to, (board \ {p}) \cup {MovedTo(p, to)},
                 Stay(board \ {p}) \cup {<<to, p.square>>}) :
              to \in {t \in GameSquares :
                        /\ ~Occupied(board, t)
                        /\ \/ Reaches(board, p, t)
                           \/ PawnPush(board, p, t) /\ t[2] # LastRank(p.color)}} :
           p \in Own(board, c)}

CaptureMoves(board, c) ==
    UNION {{Move(p.square, x.square, (board \ {p, x}) \cup {MovedTo(p, x.square)},
                 Stay(board \ {p, x}) \cup {<<x.square, p.square>>}) :
              x \in {y \in board :
                        /\ y.color # p.color
                        /\ \/ Reaches(board, p, y.square)
                           \/ PawnTakes(p, y.square) /\ y.square[2] # LastRank(p.color)}} :
           p \in Own(board, c)}

CastlingMoves(board, c) ==
    LET rank == IF c = "w" THEN 1 ELSE BOARD_SIZE
        k == [square |-> <<5, rank>>, type |-> "k", color |-> c]
        r == [square |-> <<8, rank>>, type |-> "r", color |-> c]
        kTo == <<7, rank>>
        rTo == <<6, rank>>
    IN  IF k \in board /\ r \in board /\ ~Occupied(board, kTo) /\ ~Occupied(board, rTo)
        THEN {Move(k.square, kTo, (board \ {k, r}) \cup {MovedTo(k, kTo), MovedTo(r, rTo)},
                   Stay(board \ {k, r}) \cup {<<kTo, k.square>>, <<rTo, r.square>>})}
        ELSE {}

EnPassantMoves(board, c) ==
    UNION {{Move(p.square, <<x.square[1], p.square[2] + Dir(c)>>,
                 (board \ {p, x}) \cup {MovedTo(p, <<x.square[1], p.square[2] + Dir(c)>>)},
                 Stay(board \ {p, x}) \cup {<<<<x.square[1], p.square[2] + Dir(c)>>, p.square>>}) :
              x \in {y \in board :
                        /\ y.color # c /\ y.type = "p"
                        /\ y.square[2] = p.square[2]
                        /\ Abs(y.square[1] - p.square[1]) = 1
                        /\ p.square[2] = (IF c = "w" THEN 5 ELSE 4)
                        /\ ~Occupied(board, <<y.square[1], p.square[2] + Dir(c)>>)}} :
           p \in {q \in Own(board, c) : q.type = "p"}}

PromotionMoves(board, c) ==
    UNION {{Move(p.square, to,
                 (board \ ({p} \cup {x \in board : x.square = to}))
                     \cup {[square |-> to, type |-> "q", color |-> c]},
                 Stay(board \ ({p} \cup {x \in board : x.square = to}))) :
              to \in {t \in GameSquares :
                        /\ t[2] = LastRank(c)
                        /\ \/ PawnPush(board, p, t)
                           \/ PawnTakes(p, t) /\ \E x \in board : x.square = t /\ x.color # c}} :
           p \in {q \in Own(board, c) : q.type = "p"}}

GameMoves(board, c) ==
    SimpleMoves(board, c) \cup CaptureMoves(board, c) \cup CastlingMoves(board, c)
        \cup EnPassantMoves(board, c) \cup PromotionMoves(board, c)

\* game.moves({ square, verbose: true }).
moves(board, c, square) == {m \in GameMoves(board, c) : m.from = square}

\* game.move({ from, to, promotion: 'q' }): the move, if there is one.
move(board, c, from, to) == {m \in moves(board, c, from) : m.to = to}

Deselected == [selectedSquare |-> NoSquare, validMoves |-> {}]

\* Faulty variant: any piece can be selected.
Select_AnyPiece(board, c, square) ==
    IF Occupied(board, square)
    THEN [selectedSquare |-> square,
          validMoves |-> {m.to : m \in moves(board, At(board, square).color, square)}]
    ELSE Deselected

\* onSquareClick, "2. Select Piece".
Select(board, c, square) ==
    IF Occupied(board, square) /\ At(board, square).color = c
    THEN [selectedSquare |-> square,
          validMoves |-> {m.to : m \in moves(board, c, square)}]
    ELSE Deselected

ClickSelect(square) ==
    LET s == Select(boardState, turn, square)
    IN  /\ selectedSquare' = s.selectedSquare
        /\ validMoves' = s.validMoves
        /\ accepted' = NoMove
        /\ UNCHANGED <<hook, turn, gameStatus, ended>>

\* onSquareClick, "1. Attempting to Move?", the move being accepted.
ClickMove(m) ==
    /\ calls < 1 + MaxPlies
    /\ Run(m.board, <<m.from, m.to>>, m.org)
    /\ turn' = Other(turn)
    /\ accepted' = <<m.from, m.to>>
    /\ selectedSquare' = Deselected.selectedSquare
    /\ validMoves' = Deselected.validMoves
    /\ \E e \in Verdicts : ended' = e /\ gameStatus' = checkGameStatus(e)

ClickBody(square) ==
    LET found == IF selectedSquare # NoSquare /\ square \in validMoves
                 THEN move(boardState, turn, selectedSquare, square)
                 ELSE {}
    IN  IF found # {}
        THEN ClickMove(CHOOSE m \in found : TRUE)
        ELSE ClickSelect(square)

\* History only: a click, and whether its square held a piece of the side
\* to move.
Clicked(square) ==
    IF Occupied(boardState, square) /\ At(boardState, square).color = turn
    THEN "click own"
    ELSE "click other"

\* Faulty variant: onSquareClick without its first line.
onSquareClick_NoGuard(square) ==
    /\ calls > 0
    /\ handler' = Clicked(square)
    /\ ClickBody(square)
    /\ UNCHANGED <<start, isThinking, hint, pending, asked, games>>

onSquareClick(square) ==
    /\ calls > 0
    /\ handler' = Clicked(square)
    /\ IF isGameOver(ended)
       THEN /\ accepted' = NoMove
            /\ UNCHANGED <<hook, turn, gameStatus, ended, selectedSquare, validMoves>>
       ELSE ClickBody(square)
    /\ UNCHANGED <<start, isThinking, hint, pending, asked, games>>

\* resetGame, from its buttons or the R key.  The hook runs when the board
\* or the hint of the last move has changed, that is after a move.  There is
\* no setIsThinking in it, and a call of getChessHint goes on.
resetGame ==
    /\ calls > 0
    /\ games < MaxResets
    /\ IF lastMove # NoMove
       THEN Run(start.board, ResetHint(lastMove), {})
       ELSE UNCHANGED hook
    /\ turn' = start.turn
    /\ ended' = "no"
    /\ selectedSquare' = Deselected.selectedSquare
    /\ validMoves' = Deselected.validMoves
    /\ gameStatus' = PLAYING
    /\ hint' = NoHint
    /\ accepted' = NoMove
    /\ games' = games + 1
    /\ handler' = "reset"
    /\ UNCHANGED <<start, isThinking, pending, asked>>

\* A call of getChessHint: its number, the game it was made in and the
\* control that made it.
Request(n, game, by) == [n |-> n, game |-> game, by |-> by]

\* The commentary getChessHint returns to a call: a text about the position
\* it was given.
getChessHint(r) == [n |-> r.n, game |-> r.game]

\* Faulty variant: handleGetHint without its first line.
handleGetHint_NoGuard(by) ==
    /\ isThinking' = TRUE
    /\ hint' = NoHint
    /\ pending' = pending \cup {Request(asked + 1, games, by)}
    /\ asked' = asked + 1

\* handleGetHint up to the await.
handleGetHint(by) ==
    IF isThinking
    THEN UNCHANGED <<isThinking, hint, pending, asked>>
    ELSE /\ isThinking' = TRUE
         /\ hint' = NoHint
         /\ pending' = pending \cup {Request(asked + 1, games, by)}
         /\ asked' = asked + 1

\* The button "Ask Gemini": disabled={isThinking || game.isGameOver()}.
AskGemini ==
    /\ calls > 0
    /\ asked < MaxAsks
    /\ ~(isThinking \/ isGameOver(ended))
    /\ handleGetHint("button")
    /\ handler' = "button"
    /\ UNCHANGED <<hook, turn, start, accepted, selectedSquare, validMoves,
                   gameStatus, ended, games>>

\* handleKeyPress, case 'h'.
handleKeyPress ==
    /\ calls > 0
    /\ asked < MaxAsks
    /\ IF ~isGameOver(ended)
       THEN handleGetHint("key")
       ELSE UNCHANGED <<isThinking, hint, pending, asked>>
    /\ handler' = "key"
    /\ UNCHANGED <<hook, turn, start, accepted, selectedSquare, validMoves,
                   gameStatus, ended, games>>

\* handleGetHint after the await: a call of getChessHint returns.
Advice ==
    /\ \E r \in pending :
          /\ hint' = getChessHint(r)
          /\ pending' = pending \ {r}
    /\ isThinking' = FALSE
    /\ handler' = "advice"
    /\ UNCHANGED <<hook, turn, start, accepted, selectedSquare, validMoves,
                   gameStatus, ended, asked, games>>

\* new Chess(): white to move.
AppBoards ==
    { {W("k", 5, 1), W("r", 8, 1)},
      {W("p", 5, 7), B("n", 8, 8)} }

AppInit == InitOn(AppBoards) /\ NewGame("w")

AppNext ==
    \/ Mount
    \/ \E square \in GameSquares : onSquareClick(square)
    \/ resetGame
    \/ AskGemini
    \/ handleKeyPress
    \/ Advice

SpecApp == AppInit /\ [][AppNext]_vars

----------------------------------------------------------------------------
(* Properties *)

Ids(list) == {list[i].id : i \in 1 .. Len(list)}

EntriesAt(list, sq) == {i \in 1 .. Len(list) : list[i].square = sq}

IdsAt(list, sq) == {list[i].id : i \in EntriesAt(list, sq)}

SameKind(a, b) == a.type = b.type /\ a.color = b.color

\* C1: the result of a run holds exactly one entry per occupied square of the
\* snapshot, with the kind and side of the piece on it, and no entry on a
\* square the snapshot leaves empty.
C1_OnePerOccupiedSquare ==
    calls > 0 =>
        /\ \A p \in boardState :
              /\ Cardinality(EntriesAt(trackedPieces, p.square)) = 1
              /\ \A i \in EntriesAt(trackedPieces, p.square) : SameKind(trackedPieces[i], p)
        /\ \A i \in 1 .. Len(trackedPieces) :
              \E p \in boardState : p.square = trackedPieces[i].square

\* A run on a non-empty previous set, with a hint, in which the distance pass
\* and the creation pass both produced an entry.
C1_Witness ==
    /\ calls = 2
    /\ lastMove # NoMove
    /\ Len(oldPieces) = MaxPieces
    /\ Cardinality(boardState) = MaxPieces
    /\ \E i \in 1 .. Len(trackedPieces) : trackedPieces[i].via = "C"
    /\ \E i \in 1 .. Len(trackedPieces) : trackedPieces[i].via = "D"
    /\ C1_OnePerOccupiedSquare

\* C2: no two entries of a result share an id.
C2_UniqueIds ==
    \A i, j \in 1 .. Len(trackedPieces) :
        i # j => trackedPieces[i].id # trackedPieces[j].id

\* C3: an entry of a result either carries an id of the previous set, or an
\* id generateId returned in this run, which then differs from every other id
\* it returned in this run and from every id it returned in an earlier run.
C3_ReusedOrFresh ==
    \A i \in 1 .. Len(trackedPieces) :
        LET id == trackedPieces[i].id
        IN  IF IsNew(trackedPieces[i])
            THEN /\ id \notin issued
                 /\ Cardinality({k \in 1 .. Len(minted) : minted[k] = id}) = 1
            ELSE id \in Ids(oldPieces)

\* C4: along accepted moves, a physical piece that is neither captured nor
\* promoted by the move carries the same id after the move as before it.
C4_SameIdAlongMoves ==
    \A pr \in origin : IdsAt(trackedPieces, pr[1]) = IdsAt(oldTracked, pr[2])

AllKeys == Colors \X Types

NoCaptureNoPromotion(prev, board) ==
    \A key \in AllKeys :
        Cardinality(SquaresOf(board, key)) = Cardinality(SquaresOf(SeqToSet(prev), key))

\* C5: when every kind and side has as many pieces in the snapshot as in the
\* previous set (no capture, no promotion), a piece whose square, kind and
\* side are those of a previous entry has that entry's id.
C5_StationaryKeepsId ==
    NoCaptureNoPromotion(oldPieces, boardState) =>
        \A i \in 1 .. Len(oldPieces) :
            \A p \in boardState :
                (p.square = oldPieces[i].square /\ SameKind(p, oldPieces[i]))
                    => IdsAt(trackedPieces, p.square) = {oldPieces[i].id}

\* A run with a hint in which one piece stayed and another of the same kind
\* and side went elsewhere.
C5_Witness ==
    /\ calls = 2
    /\ lastMove # NoMove
    /\ NoCaptureNoPromotion(oldPieces, boardState)
    /\ \E i, j \in 1 .. Len(oldPieces) :
          /\ i # j
          /\ SameKind(oldPieces[i], oldPieces[j])
          /\ oldPieces[i].square \in SquaresOf(boardState, Key(oldPieces[i]))
          /\ oldPieces[j].square \notin SquaresOf(boardState, Key(oldPieces[j]))
          /\ IdsAt(trackedPieces, oldPieces[i].square) = {oldPieces[i].id}

\* The case of C6 for the previous entry o: the hint leads from o's square to
\* a square that holds a piece of o's kind and side, no such piece is left on
\* o's square and the previous set had none on the target.
Hinted(o) ==
    /\ lastMove # NoMove
    /\ o.square = lastMove[1]
    /\ lastMove[2] \in SquaresOf(boardState, Key(o))
    /\ lastMove[1] \notin SquaresOf(boardState, Key(o))
    /\ lastMove[2] \notin SquaresOf(SeqToSet(oldPieces), Key(o))

\* C6: in that case the entry on the hint's target carries o's id.
C6_HintedKeepsId ==
    \A i \in 1 .. Len(oldPieces) :
        Hinted(oldPieces[i]) => IdsAt(trackedPieces, lastMove[2]) = {oldPieces[i].id}

\* ... also when another previous entry of the kind and side, gone from its
\* square as well, lies closer to the target.
C6_Witness ==
    /\ calls = 2
    /\ \E i, j \in 1 .. Len(oldPieces) :
          /\ Hinted(oldPieces[i])
          /\ i # j
          /\ SameKind(oldPieces[i], oldPieces[j])
          /\ oldPieces[j].square \notin SquaresOf(boardState, Key(oldPieces[j]))
          /\ getDistance(oldPieces[j].square, lastMove[2]) < getDistance(oldPieces[i].square, lastMove[2])
          /\ IdsAt(trackedPieces, lastMove[2]) = {oldPieces[i].id}

\* C7: the id of a captured entry (gone from its square, no piece of its kind
\* and side on a new square) is in no result from that run on.
C7_CapturedIdGone == Ids(trackedPieces) \cap retired = {}

\* The case of C8 for the previous entry o and the piece p of the snapshot: o
\* is a pawn on the hint's origin, p a piece of o's side and of another kind
\* on the hint's target, and the other pieces of p's kind and side stand
\* where the previous set has them.
Promoted(o, p) ==
    /\ lastMove # NoMove
    /\ o.type = "p" /\ o.square = lastMove[1]
    /\ p.type # "p" /\ p.color = o.color /\ p.square = lastMove[2]
    /\ lastMove[1] \notin SquaresOf(boardState, Key(o))
    /\ SquaresOf(boardState, Key(p)) \ {p.square} = SquaresOf(SeqToSet(oldPieces), Key(p))

\* C8: the promoted piece gets an id generated in this run that is neither
\* the pawn's nor any other id of the previous set, and the pawn's id is not
\* in the result.
C8_PromotionMintsFresh ==
    \A i \in 1 .. Len(oldPieces) :
        \A p \in boardState :
            Promoted(oldPieces[i], p) =>
                /\ \A k \in EntriesAt(trackedPieces, p.square) :
                      /\ IsNew(trackedPieces[k])
                      /\ trackedPieces[k].id # oldPieces[i].id
                      /\ trackedPieces[k].id \notin Ids(oldPieces)
                /\ oldPieces[i].id \notin Ids(trackedPieces)

SideOf(pieces, c) == {<<p.square, p.type>> : p \in {q \in pieces : q.color = c}}

E1 == <<5, 1>>
F1 == <<6, 1>>
G1 == <<7, 1>>
H1 == <<8, 1>>

\* The case of C9 for the side c.
Castled(c) ==
    /\ SideOf(SeqToSet(oldPieces), c) = {<<E1, "k">>, <<H1, "r">>}
    /\ SideOf(boardState, c) = {<<G1, "k">>, <<F1, "r">>}
    /\ lastMove = <<E1, G1>>

\* C9: after castling with the king's move as the hint, the king on g1 has
\* the id of the king on e1 from the hint pass, the rook on f1 has the id of
\* the rook on h1 from the distance pass, and no id is generated for the side.
C9_Castling ==
    \A c \in Colors :
        Castled(c) =>
            \A k \in 1 .. Len(trackedPieces) :
                LET r == trackedPieces[k]
                IN  r.color = c =>
                        /\ r.square \in {G1, F1}
                        /\ r.square = G1 => r.via = "B" /\ {r.id} = IdsAt(oldPieces, E1)
                        /\ r.square = F1 => r.via = "C" /\ {r.id} = IdsAt(oldPieces, H1)

\* previous = {King e1, Rook h1}, current = {King g1, Rook f1}, nothing else.
C9_Witness ==
    /\ Castled("w")
    /\ Len(oldPieces) = 2
    /\ Len(trackedPieces) = 2
    /\ minted = <<>>
    /\ C9_Castling

\* C10: an entry of a result and an entry of the previous set with the same
\* id have the same kind and side.
C10_WithinPartition ==
    \A i \in 1 .. Len(trackedPieces) :
        \A j \in 1 .. Len(oldPieces) :
            oldPieces[j].id = trackedPieces[i].id => SameKind(oldPieces[j], trackedPieces[i])

\* An id is inherited over a change of square while a previous entry of
\* another kind has lost its piece.
C10_Witness ==
    /\ calls = 2
    /\ \E i \in 1 .. Len(trackedPieces) :
          /\ trackedPieces[i].via \in {"B", "C"}
          /\ \E j \in 1 .. Len(oldPieces) :
                /\ ~SameKind(oldPieces[j], trackedPieces[i])
                /\ oldPieces[j].square \notin SquaresOf(boardState, Key(oldPieces[j]))
                /\ oldPieces[j].id \notin Ids(trackedPieces)
          /\ \E j \in 1 .. Len(oldPieces) :
                /\ oldPieces[j].id = trackedPieces[i].id
                /\ SameKind(oldPieces[j], trackedPieces[i])

----------------------------------------------------------------------------
(* Properties of one run, read against the previous set it started from    *)

\* What a result assigns: to each square its piece and the previous id the
\* entry reuses, <<>> when the id was generated in the run.
Assignment(result) ==
    {<<result[i].square, result[i].type, result[i].color,
       IF IsNew(result[i]) THEN <<>> ELSE result[i].id>> : i \in 1 .. Len(result)}

\* The previous entries and the pieces of the snapshot the stationary pass
\* leaves unmatched.
UnmatchedOld(o) == o.square \notin SquaresOf(boardState, Key(o))
UnmatchedNew(p) == p.square \notin SquaresOf(SeqToSet(oldPieces), Key(p))

\* The hint of the last run was stale or mismatched: no unmatched previous
\* entry on its origin has an unmatched piece of its kind and side on its target.
StaleHint ==
    /\ lastMove # NoMove
    /\ ~\E i \in 1 .. Len(oldPieces) : \E p \in boardState :
          /\ oldPieces[i].square = lastMove[1]
          /\ UnmatchedOld(oldPieces[i])
          /\ p.square = lastMove[2]
          /\ SameKind(p, oldPieces[i])
          /\ UnmatchedNew(p)

\* C11: a run with a stale or mismatched hint ends without error and assigns
\* what the run on the same previous set and snapshot assigns with no hint.
C11_StaleHintIsNoHint ==
    StaleHint =>
        Assignment(trackedPieces)
            = Assignment(Reconcile(oldPieces, boardState, NoMove, Draws(boardState)))

\* The hint leads from a previous entry that lost its piece to a piece of
\* another kind, and the distance pass handed an id on.
C11_Witness ==
    /\ calls = 2
    /\ StaleHint
    /\ \E i \in 1 .. Len(oldPieces) :
          /\ oldPieces[i].square = lastMove[1]
          /\ UnmatchedOld(oldPieces[i])
          /\ \E p \in boardState : p.square = lastMove[2] /\ ~SameKind(p, oldPieces[i])
    /\ \E i \in 1 .. Len(trackedPieces) : trackedPieces[i].via = "C"
    /\ C11_StaleHintIsNoHint

\* C12: after a run the previous table holds exactly the entries of the run's
\* result, one per occupied square of the snapshot, each under its own id,
\* and nothing else.
C12_PrevIsResult ==
    calls > 0 =>
        /\ SeqToSet(prevPieces) = {Stored(trackedPieces[i]) : i \in 1 .. Len(trackedPieces)}
        /\ Len(prevPieces) = Cardinality(boardState)
        /\ \A p \in boardState : Cardinality(EntriesAt(prevPieces, p.square)) = 1

\* The entries of a previous table in every order.
Orders(prev) ==
    {q \in [1 .. Len(prev) -> SeqToSet(prev)] : SeqToSet(q) = SeqToSet(prev)}

\* ... and in the order a first run on their squares stores them.
MountOrder(prev) ==
    LET board == {[square |-> e.square, type |-> e.type, color |-> e.color] : e \in SeqToSet(prev)}
        shape == Reconcile(<<>>, board, NoMove, Draws(board))
    IN  [i \in 1 .. Len(shape) |-> CHOOSE e \in SeqToSet(prev) : e.square = shape[i].square]

\* The last run repeated on the previous entries in the order q.
SameAssignmentFrom(q) ==
    Assignment(Reconcile(q, boardState, lastMove, Draws(boardState))) = Assignment(trackedPieces)

\* The previous entries and the pieces that passes A and B of the last run
\* left to the distance pass.
LeftOld(o) ==
    ~\E i \in 1 .. Len(trackedPieces) :
        trackedPieces[i].via \in {"A", "B"} /\ trackedPieces[i].id = o.id
LeftNew(p) ==
    \E i \in EntriesAt(trackedPieces, p.square) : trackedPieces[i].via \in {"C", "D"}

\* Two previous entries left to the distance pass are equally far from a
\* piece of their kind and side left to it.
DistanceTie ==
    \E i, j \in 1 .. Len(oldPieces) : \E p \in boardState :
        /\ i # j
        /\ SameKind(oldPieces[i], oldPieces[j]) /\ SameKind(oldPieces[i], p)
        /\ LeftOld(oldPieces[i]) /\ LeftOld(oldPieces[j]) /\ LeftNew(p)
        /\ getDistance(oldPieces[i].square, p.square) = getDistance(oldPieces[j].square, p.square)

\* C13 as claimed: the run assigns what it assigns when the same previous
\* entries are stored in another order, here the order of a first run.
C13_OrderIndependent ==
    calls > 0 => SameAssignmentFrom(MountOrder(oldPieces))

\* C13 amended: the run assigns the same from every order of the previous
\* entries, unless two previous entries left to the distance pass are equally
\* far from a piece left to it.
C13_OrderIndependentUnlessTie ==
    (calls > 0 /\ ~DistanceTie) =>
        \A q \in Orders(oldPieces) : SameAssignmentFrom(q)

\* The previous table was stored out of the order of a first run, both its
\* entries were left to the distance pass and competed for one piece.
C13_Witness ==
    /\ calls = 3
    /\ Len(oldPieces) = 2
    /\ oldPieces # MountOrder(oldPieces)
    /\ \A i \in 1 .. 2 : LeftOld(oldPieces[i])
    /\ \E i \in 1 .. Len(trackedPieces) : trackedPieces[i].via = "C"
    /\ Cardinality(boardState) = 1
    /\ ~DistanceTie
    /\ C13_OrderIndependentUnlessTie

\* C14: the run on the empty previous table, the empty snapshot and no hint
\* returns the empty result and generates no id.
C14_EmptyInEmptyOut ==
    (calls > 0 /\ oldPieces = <<>> /\ boardState = {} /\ lastMove = NoMove) =>
        /\ trackedPieces = <<>>
        /\ minted = <<>>
        /\ prevPieces = <<>>

\* The first run, on a board without a piece.
C14_Witness ==
    /\ calls = 1
    /\ oldPieces = <<>>
    /\ boardState = {}
    /\ lastMove = NoMove
    /\ trackedPieces = <<>>
    /\ issued = {}

\* The distance the properties speak of: the square of the Euclidean distance
\* between two squares on their integer file and rank coordinates.
Euclid2(a, b) == (a[1] - b[1]) * (a[1] - b[1]) + (a[2] - b[2]) * (a[2] - b[2])

LeftOlds(key) == {o \in SeqToSet(oldPieces) : Key(o) = key /\ LeftOld(o)}
LeftNews(key) == {p \in boardState : Key(p) = key /\ LeftNew(p)}

\* The entries the distance pass of a partition produced, in the order of
\* their production, and the previous entry an id comes from.
ByDistance(key) ==
    LET FromC(r) == r.via = "C" /\ Key(r) = key
    IN  SelectSeq(trackedPieces, FromC)

OldOf(id) == CHOOSE o \in SeqToSet(oldPieces) : o.id = id

\* C17: when the distance pass of a partition matches a pair, every pair of
\* its leftovers that is strictly closer shares its previous entry or its
\* piece with a pair the pass matched before; the pass matches leftovers only
\* and no previous entry and no piece twice.
C17_GreedyByDistance ==
    \A key \in AllKeys :
        LET c == ByDistance(key)
        IN  \A k \in 1 .. Len(c) :
                /\ c[k].id \in {o.id : o \in LeftOlds(key)}
                /\ c[k].square \in {p.square : p \in LeftNews(key)}
                /\ \A m \in 1 .. Len(c) :
                      m # k => c[m].id # c[k].id /\ c[m].square # c[k].square
                /\ \A o \in LeftOlds(key), p \in LeftNews(key) :
                      Euclid2(o.square, p.square) < Euclid2(OldOf(c[k].id).square, c[k].square)
                          => \E m \in 1 .. (k - 1) : c[m].id = o.id \/ c[m].square = p.square

\* Two matches of the pass, the second of a pair farther apart than two
\* pairs the first match put out of reach.
C17_Witness ==
    \E key \in AllKeys :
        LET c == ByDistance(key)
        IN  /\ Len(c) = 2
            /\ \E o \in LeftOlds(key), p \in LeftNews(key) :
                  /\ o.id # c[2].id /\ p.square = c[2].square
                  /\ Euclid2(o.square, p.square) < Euclid2(OldOf(c[2].id).square, c[2].square)
            /\ \E o \in LeftOlds(key), p \in LeftNews(key) :
                  /\ o.id = c[2].id /\ p.square # c[2].square
                  /\ Euclid2(o.square, p.square) < Euclid2(OldOf(c[2].id).square, c[2].square)
            /\ C17_GreedyByDistance

\* The case of C18: the previous entries i and j, i stored before j, are of
\* one kind and side, both left to the distance pass, and equally far from
\* the piece p left to it.
Tied(i, j, p) ==
    /\ i < j
    /\ SameKind(oldPieces[i], oldPieces[j]) /\ SameKind(oldPieces[i], p)
    /\ LeftOld(oldPieces[i]) /\ LeftOld(oldPieces[j]) /\ LeftNew(p)
    /\ Euclid2(oldPieces[i].square, p.square) = Euclid2(oldPieces[j].square, p.square)

\* C18 as claimed: the piece inherits the id of the entry stored earlier.
C18_EarlierOldWins ==
    \A i, j \in 1 .. Len(oldPieces) : \A p \in boardState :
        Tied(i, j, p) => IdsAt(trackedPieces, p.square) = {oldPieces[i].id}

\* C18 amended: the piece inherits the id of the entry stored earlier, unless
\* the pass has matched that entry to another piece, or the piece to a third
\* entry, in a pair sorted before.
C18_EarlierOldWinsIfFree ==
    \A i, j \in 1 .. Len(oldPieces) : \A p \in boardState :
        Tied(i, j, p) =>
            \/ IdsAt(trackedPieces, p.square) = {oldPieces[i].id}
            \/ \E k \in 1 .. Len(trackedPieces) :
                  /\ trackedPieces[k].via = "C"
                  /\ trackedPieces[k].id = oldPieces[i].id
                  /\ trackedPieces[k].square # p.square
                  /\ Euclid2(oldPieces[i].square, trackedPieces[k].square)
                        <= Euclid2(oldPieces[i].square, p.square)
            \/ \E k \in EntriesAt(trackedPieces, p.square) :
                  /\ trackedPieces[k].via = "C"
                  /\ trackedPieces[k].id \notin {oldPieces[i].id, oldPieces[j].id}
                  /\ Euclid2(OldOf(trackedPieces[k].id).square, p.square)
                        <= Euclid2(oldPieces[i].square, p.square)

\* The previous table was stored out of the order of a first run, its two
\* entries are equally far from the one piece of the snapshot, and the piece
\* has the id of the entry stored first.
C18_Witness ==
    /\ calls = 3
    /\ Len(oldPieces) = 2
    /\ oldPieces # MountOrder(oldPieces)
    /\ Cardinality(boardState) = 1
    /\ \E p \in boardState :
          /\ Tied(1, 2, p)
          /\ IdsAt(trackedPieces, p.square) = {oldPieces[1].id}

\* The previous entries and the pieces of a partition, the number of ids the
\* last run generated for it, the previous ids it handed on and those it
\* dropped.
OldOfKey(key) == {o \in SeqToSet(oldPieces) : Key(o) = key}
NewOfKey(key) == {p \in boardState : Key(p) = key}

Max(a, b) == IF a > b THEN a ELSE b

MintedFor(key) ==
    LET FromD(r) == r.via = "D" /\ Key(r) = key
    IN  Len(SelectSeq(trackedPieces, FromD))

ReusedFor(key) ==
    {trackedPieces[i].id : i \in {k \in 1 .. Len(trackedPieces) :
        trackedPieces[k].via # "D" /\ Key(trackedPieces[k]) = key}}

DroppedFor(key) == {o.id : o \in OldOfKey(key)} \ ReusedFor(key)

\* C19: a partition with o previous entries and n pieces gets max(0, n - o)
\* generated ids and loses max(0, o - n) previous ids, never both, and hands
\* on previous ids of its own only; with o = n its ids are the previous ones.
C19_MintAndDropCounts ==
    \A key \in AllKeys :
        calls > 0 =>
        LET o == Cardinality(OldOfKey(key))
            n == Cardinality(NewOfKey(key))
        IN  /\ MintedFor(key) = Max(0, n - o)
            /\ Cardinality(DroppedFor(key)) = Max(0, o - n)
            /\ ReusedFor(key) \subseteq {e.id : e \in OldOfKey(key)}
            /\ MintedFor(key) > 0 => DroppedFor(key) = {}
            /\ o = n =>
                  {trackedPieces[i].id : i \in {k \in 1 .. Len(trackedPieces) : Key(trackedPieces[k]) = key}}
                      = {e.id : e \in OldOfKey(key)}

\* A run in which one partition lost a piece and dropped one id by distance
\* while another gained pieces and got as many generated ids.
C19_Witness ==
    /\ calls = 2
    /\ \E key \in AllKeys :
          /\ Cardinality(OldOfKey(key)) = 2
          /\ Cardinality(NewOfKey(key)) = 1
          /\ Cardinality(DroppedFor(key)) = 1
          /\ \E i \in 1 .. Len(trackedPieces) :
                trackedPieces[i].via = "C" /\ Key(trackedPieces[i]) = key
    /\ \E key \in AllKeys :
          /\ Cardinality(OldOfKey(key)) = 0
          /\ MintedFor(key) = 1
    /\ C19_MintAndDropCounts

\* The case of C20: the stationary pass leaves at most one previous entry
\* and at most one piece of every partition unmatched.
AtMostOneLeft ==
    \A key \in AllKeys :
        /\ Cardinality({o \in OldOfKey(key) : UnmatchedOld(o)}) <= 1
        /\ Cardinality({p \in NewOfKey(key) : UnmatchedNew(p)}) <= 1

\* C20: in that case the run, whatever its hint, assigns what the run on the
\* same previous table and snapshot assigns with no hint.
C20_HintMakesNoDifference ==
    (calls > 0 /\ AtMostOneLeft) =>
        Assignment(trackedPieces)
            = Assignment(Reconcile(oldPieces, boardState, NoMove, Draws(boardState)))

\* The hint pass matched the one leftover pair of a partition while another
\* partition kept a piece on its square.
C20_Witness ==
    /\ calls = 2
    /\ AtMostOneLeft
    /\ \E i \in 1 .. Len(trackedPieces) : trackedPieces[i].via = "B"
    /\ \E i \in 1 .. Len(trackedPieces) : trackedPieces[i].via = "A"
    /\ C20_HintMakesNoDifference

\* C16: a piece on a square where the previous table has an entry of its kind
\* and side has that entry's id, whatever the hint and whatever happens on the
\* other squares.
C16_StationaryFirst ==
    \A i \in 1 .. Len(oldPieces) :
        \A p \in boardState :
            (p.square = oldPieces[i].square /\ SameKind(p, oldPieces[i]))
                => /\ IdsAt(trackedPieces, p.square) = {oldPieces[i].id}
                   /\ \A k \in EntriesAt(trackedPieces, p.square) : trackedPieces[k].via = "A"

\* The hint leads to the square of a piece that stayed, from the square of an
\* entry of its kind and side that lost its piece and has no piece to go to.
C16_Witness ==
    /\ calls = 2
    /\ lastMove # NoMove
    /\ ~NoCaptureNoPromotion(oldPieces, boardState)
    /\ \E i, j \in 1 .. Len(oldPieces) :
          /\ oldPieces[i].square = lastMove[2]
          /\ oldPieces[j].square = lastMove[1]
          /\ SameKind(oldPieces[i], oldPieces[j])
          /\ ~UnmatchedOld(oldPieces[i])
          /\ UnmatchedOld(oldPieces[j])
          /\ IdsAt(trackedPieces, lastMove[2]) = {oldPieces[i].id}
          /\ oldPieces[j].id \notin Ids(trackedPieces)

----------------------------------------------------------------------------
(* Properties of App *)

\* The snapshot of the run before the last, read off its result.
BoardBefore ==
    {[square |-> e.square, type |-> e.type, color |-> e.color] : e \in SeqToSet(oldTracked)}

\* C15: the hint of a run is the from/to of the move that produced the run's
\* snapshot (its origin held the mover and is empty now, its target holds the
\* mover or the queen it became), and it is null when the snapshot is that of
\* a new game, be it the first render or the one after resetGame.
C15_HintOfTheSnapshot ==
    calls > 0 =>
        /\ lastMove = accepted
        /\ IF accepted = NoMove
           THEN boardState = start.board
           ELSE \E o \in BoardBefore :
                    /\ o.square = lastMove[1]
                    /\ ~Occupied(boardState, lastMove[1])
                    /\ \E p \in boardState :
                          /\ p.square = lastMove[2]
                          /\ p.color = o.color
                          /\ p.type = o.type \/ (o.type = "p" /\ p.type = "q")

\* A run on the snapshot of resetGame, after a move with its hint.
C15_Witness ==
    /\ calls > 2
    /\ lastMove = NoMove
    /\ boardState = start.board
    /\ BoardBefore # boardState
    /\ C15_HintOfTheSnapshot


----------------------------------------------------------------------------
(* The selection of App                                                    *)

\* The squares the legal moves of the side to move lead to from a square.
LegalTargets(sq) == {m.to : m \in {n \in GameMoves(boardState, turn) : n.from = sq}}

\* The last handler was a click that played a move, a click on a square that
\* held no piece of the side to move, or resetGame.
Deselecting ==
    \/ handler \in {"click own", "click other"} /\ accepted # NoMove
    \/ handler = "click other"
    \/ handler = "reset"

\* C21: validMoves is non-empty only with a selected square; a selected square
\* holds a piece of the side to move and validMoves are exactly the squares
\* its legal moves lead to; after an accepted move, after a click on a square
\* that holds no piece of the side to move and after resetGame nothing is
\* selected and validMoves is empty.
C21_Selection ==
    /\ validMoves # {} => selectedSquare # NoSquare
    /\ selectedSquare # NoSquare =>
          /\ \E p \in boardState : p.square = selectedSquare /\ p.color = turn
          /\ validMoves = LegalTargets(selectedSquare)
    /\ Deselecting => (selectedSquare = NoSquare /\ validMoves = {})

\* A piece with legal moves is selected after the other side has moved, in a
\* game that resetGame started.
C21_Witness ==
    /\ selectedSquare # NoSquare
    /\ validMoves # {}
    /\ lastMove # NoMove
    /\ turn = "b"
    /\ games > 0

----------------------------------------------------------------------------
(* Clicks after the end of the game                                        *)

Clicks == {"click own", "click other"}

\* C22: once the rule engine reports the game over, a click on a square
\* changes neither the position, lastMove, selectedSquare, validMoves nor
\* gameStatus; this lasts until resetGame.
C22_ClicksAfterGameOver ==
    [][(ended # "no" /\ handler' \in Clicks)
          => UNCHANGED <<boardState, turn, ended, lastMove, selectedSquare,
                         validMoves, gameStatus>>]_vars

\* The game is over, the game-over status is on screen, and the last
\* handler was a click that played no move.
C22_Witness ==
    /\ ended # "no"
    /\ gameStatus # PLAYING
    /\ handler = "click own"
    /\ accepted = NoMove

----------------------------------------------------------------------------
(* Requests for commentary                                                 *)

\* C23: at most one call of getChessHint is outstanding at any time, and
\* isThinking is true exactly while one is: handleGetHint, from the button
\* or from the H key, starts none while isThinking is true.
C23_OneRequest ==
    /\ Cardinality(pending) <= 1
    /\ isThinking <=> pending # {}

\* The H key was pressed while the request the button started is outstanding.
C23_Witness ==
    /\ handler = "key"
    /\ isThinking
    /\ \E r \in pending : r.by = "button"

\* C24: the commentary on screen answers a request made in the game on
\* screen: after resetGame the hint stays null until a request started after
\* it returns.
C24_HintOfThisGame == hint # NoHint => hint.game = games

====
